---------------------------- MODULE Spec2Model ----------------------------
(***************************************************************************)
(* Multi-camera calibration core of wwagdikala/vision:                     *)
(*   - CalibrationModel (calibration_module/models/calibration_model.py):  *)
(*     the Observation Store and perform_global_calibration;               *)
(*   - BundleAdjustment (calibration_module/models/bundle_adjustment.py).  *)
(*                                                                         *)
(* Python lists are sequences: list index i is sequence index i + 1.       *)
(* A 2-D detection is represented by its number of points (the first       *)
(* dimension of the (N, 2) array); None is the value None below.  A 3-D    *)
(* template is represented by the settings it is built from.               *)
(***************************************************************************)
EXTENDS Integers, Sequences, FiniteSets, TLC

\* ------------------------------------------------------------------ bounds
\* largest number of cameras of a call (length of frame_data / of cameras)
MaxCams == 2
\* largest view index of a call (view indices are 0 .. MaxView)
MaxView == 0
\* largest number of views handed to _compute_stereo_3d_error
MaxStereoViews == 3
\* largest number of calibration sessions whose lists are kept
MaxSessions == 2
\* largest number of views whose residuals are computed at once
MaxResidualViews == 3
\* largest number of residual evaluations of one optimize() call
MaxEvaluations == 2

\* ------------------------------------------------------------ input domains
\* Python's None, for an absent detection
None == -1
\* calibration.pattern_rows / pattern_cols / square_size the settings may hold
PatternRows == {1, 2}
PatternCols == {2}
SquareSizes == {10}
\* the pattern the pipeline runs are started with (one value of Settings)
DefaultSettings == [rows |-> 2, cols |-> 2, square_size |-> 10]
Settings == [rows : PatternRows, cols : PatternCols, square_size : SquareSizes]
\* point counts of the detections a detector hands over: None, an empty
\* array, or an array of N points
DetectionCounts == {4}
Detections == {None, 0} \cup DetectionCounts
ViewIndices == 0 .. MaxView
\* view indices one past the largest, so that an index can arrive before its predecessor
SkippingViewIndices == 0 .. MaxView + 1
\* frame_data: one (frame, points_2d) entry per camera; the frame is unused
CapturedFrames ==
    UNION {[1 .. n -> {None} \cup DetectionCounts] : n \in 0 .. MaxCams}
FrameData == UNION {[1 .. n -> Detections] : n \in 0 .. MaxCams}

VARIABLES
    settings,       \* settings_service: calibration.pattern_rows/cols/square_size
    n_cameras,      \* CalibrationModel.n_cameras
    object_points,  \* CalibrationModel.object_points
    image_points,   \* CalibrationModel.image_points
    valid_views,    \* CalibrationModel.valid_views
    camera_matrices, \* CalibrationModel.camera_matrices
    dist_coeffs,    \* CalibrationModel.dist_coeffs
    rotations,      \* CalibrationModel.rotations
    translations,   \* CalibrationModel.translations
    ba,             \* a BundleAdjustment instance used through its own methods
    last,           \* the last call and its outcome
    first_template, \* history: view index -> template built when it was first recorded
    storage,        \* the CalibrationStorage service
    lists,          \* the parameter lists calibration sessions have built, by identity
    published,      \* history: the calibration as it was when it was stored
    current_measurements, \* MeasurementModel.current_measurements
    worker          \* the optimize() call a worker thread is running, if any

vars == <<settings, n_cameras, object_points, image_points, valid_views,
          camera_matrices, dist_coeffs, rotations, translations, ba,
          last, first_template, storage, lists, published,
          current_measurements, worker>>
measurement == <<storage, lists, published, current_measurements>>
store == <<n_cameras, object_points, image_points, valid_views>>
resection == <<camera_matrices, dist_coeffs, rotations, translations>>

\* ----------------------------------------------------------------- helpers
\* list[i] of a Python list (0-based)
At(list, i) == list[i + 1]
\* list[i] = x
SetAt(list, i, x) == [list EXCEPT ![i + 1] = x]
\* [x for _ in range(n)]
Repeat(x, n) == [i \in 1 .. n |-> x]

\* 3-D points are triples of integers, 3x3 matrices are triples of rows
\* the vector and the matrix with the given entries
Vector3(Entry(_)) == <<Entry(1), Entry(2), Entry(3)>>
Matrix3(Entry(_, _)) ==
    <<<<Entry(1, 1), Entry(1, 2), Entry(1, 3)>>,
      <<Entry(2, 1), Entry(2, 2), Entry(2, 3)>>,
      <<Entry(3, 1), Entry(3, 2), Entry(3, 3)>>>>
\* M.T
Transposed(M) == Matrix3(LAMBDA i, j : M[j][i])
\* M @ N
MatMul(M, N) ==
    Matrix3(LAMBDA i, j :
                M[i][1] * N[1][j] + M[i][2] * N[2][j] + M[i][3] * N[3][j])
\* M @ p
MatVec(M, p) ==
    Vector3(LAMBDA i : M[i][1] * p[1] + M[i][2] * p[2] + M[i][3] * p[3])
VecAdd(p, q) == Vector3(LAMBDA i : p[i] + q[i])
VecSub(p, q) == Vector3(LAMBDA i : p[i] - q[i])
\* np.linalg.norm(p) ** 2
SquaredNorm(p) == p[1] * p[1] + p[2] * p[2] + p[3] * p[3]

\* points_2d is not None and len(points_2d) > 0
IsPresent(points_2d) == points_2d # None /\ points_2d > 0

\* objp = np.zeros((rows * cols, 3)); objp[:, :2] = mgrid * square_size
objp(cfg) == cfg
\* objp.shape[0]
NumPoints(template) == template.rows * template.cols

\* ---------------------------------------------------- CalibrationModel
\* the branch process_view takes on the camera count of frame_data
CheckCameraCount_Reinit(self_n, n) ==
    IF self_n = 0 \/ self_n # n THEN "initialize" ELSE "ok"
CheckCameraCount(self_n, n) ==
    IF self_n = 0 THEN "initialize"
    ELSE IF self_n # n THEN "raise"
    ELSE "ok"

\* "Ensure object_points list is long enough to store this view"
EnsureTemplate(op, view_idx, cfg) ==
    IF Len(op) <= view_idx THEN Append(op, objp(cfg)) ELSE op

\* while len(image_points[cam_idx]) <= view_idx: append(None)
PadTo(row, view_idx) ==
    IF Len(row) <= view_idx
    THEN row \o Repeat(None, view_idx + 1 - Len(row))
    ELSE row

\* the loop over enumerate(frame_data), from camera cam_idx on; an IndexError
\* of valid_views[cam_idx] ends it with what was written so far
RECURSIVE StoreDetections(_, _, _, _, _, _)
StoreDetections(ip, vv, view_idx, frame_data, cam_idx, valid_detections) ==
    IF cam_idx >= Len(frame_data)
    THEN [ip |-> ip, vv |-> vv, valid_detections |-> valid_detections,
          error |-> "none"]
    ELSE
        LET points_2d == At(frame_data, cam_idx)
            ip1 == IF Len(ip) <= cam_idx THEN Append(ip, <<>>) ELSE ip
            ip2 == SetAt(ip1, cam_idx, PadTo(At(ip1, cam_idx), view_idx))
        IN  IF IsPresent(points_2d)
            THEN
                LET ip3 == SetAt(ip2, cam_idx,
                                 SetAt(At(ip2, cam_idx), view_idx, points_2d))
                IN  IF cam_idx >= Len(vv)
                    THEN [ip |-> ip3, vv |-> vv,
                          valid_detections |-> valid_detections,
                          error |-> "IndexError"]
                    ELSE StoreDetections(
                            ip3,
                            SetAt(vv, cam_idx, At(vv, cam_idx) \cup {view_idx}),
                            view_idx, frame_data, cam_idx + 1,
                            valid_detections + 1)
            ELSE StoreDetections(
                    SetAt(ip2, cam_idx,
                          SetAt(At(ip2, cam_idx), view_idx, None)),
                    vv, view_idx, frame_data, cam_idx + 1, valid_detections)

\* return valid_detections >= 2
ProcessViewReturn_AtLeastOne(valid_detections) == valid_detections >= 1
ProcessViewReturn(valid_detections) == valid_detections >= 2

\* the number of entries of frame_data with a present detection
PresentCount(frame_data) ==
    Cardinality({i \in DOMAIN frame_data : IsPresent(frame_data[i])})

\* ------------------------------------------------------ BundleAdjustment
\* sorted(set): the order in which a set of small view indices is iterated
RECURSIVE SortedSeq(_)
SortedSeq(S) ==
    IF S = {} THEN <<>>
    ELSE LET m == CHOOSE x \in S : \A y \in S : x <= y
         IN  <<m>> \o SortedSeq(S \ {m})

\* BundleAdjustment.__init__
NewBundleAdjustment ==
    [cameras |-> <<>>, object_points |-> <<>>, image_points |-> <<>>,
     valid_views |-> <<>>, n_cameras |-> 0, n_views |-> 0, n_points |-> 0]

\* BundleAdjustment.set_camera_parameters
set_camera_parameters(self, cameras) ==
    [self EXCEPT !.cameras = cameras,
                 !.n_cameras = Len(cameras),
                 !.valid_views = Repeat({}, Len(cameras))]

\* "Mark valid views": the loop of set_calibration_data from camera cam_idx
\* on; image_points[cam_idx] past the end of the list is an IndexError
RECURSIVE MarkValidViews(_, _)
MarkValidViews(self, cam_idx) ==
    IF cam_idx >= self.n_cameras
    THEN [self |-> self, error |-> "none"]
    ELSE IF cam_idx >= Len(self.image_points)
    THEN [self |-> self, error |-> "IndexError"]
    ELSE
        LET row == At(self.image_points, cam_idx)
            marked == {view_idx \in 0 .. Len(row) - 1 : At(row, view_idx) # None}
        IN  MarkValidViews(
                [self EXCEPT !.valid_views[cam_idx + 1] = @ \cup marked],
                cam_idx + 1)

\* BundleAdjustment.set_calibration_data
set_calibration_data(self, object_pts, image_pts) ==
    MarkValidViews(
        [self EXCEPT !.object_points = object_pts,
                     !.image_points = image_pts,
                     !.n_views = Len(object_pts),
                     !.n_points = IF Len(object_pts) > 0
                                  THEN NumPoints(At(object_pts, 0)) ELSE 0],
        0)

\* _params_to_vector: the (rvec, tvec) of every camera, in camera order
params_to_vector(self) ==
    [i \in 1 .. Len(self.cameras) |->
        [rvec |-> self.cameras[i].rvec, tvec |-> self.cameras[i].tvec]]

\* _vector_to_params: rvec and tvec of cameras 0 .. n_cameras - 1 from x
vector_to_params_WithIntrinsics(self, x) ==
    [self EXCEPT !.cameras =
        [i \in 1 .. Len(self.cameras) |->
            [self.cameras[i] EXCEPT !.rvec = x[i].rvec, !.tvec = x[i].tvec,
                                    !.camera_matrix = [mtx |-> None]]]]
vector_to_params(self, x) ==
    [self EXCEPT !.cameras =
        [i \in 1 .. Len(self.cameras) |->
            IF i <= self.n_cameras
            THEN [self.cameras[i] EXCEPT !.rvec = x[i].rvec, !.tvec = x[i].tvec]
            ELSE self.cameras[i]]]

\* the exception one evaluation of _compute_residuals ends with, if any:
\* object_points[view_idx] or image_points[cam_idx][view_idx] past the end
\* (IndexError), or projected and detected point counts that do not
\* broadcast (ValueError)
ResidualError(self) ==
    LET pairs == UNION {{<<c, v>> : v \in At(self.valid_views, c)} :
                           c \in 0 .. self.n_cameras - 1}
        OutOfRange(c, v) ==
            \/ v >= Len(self.object_points)
            \/ c >= Len(self.image_points)
            \/ v >= Len(At(self.image_points, c))
        Mismatch(c, v) ==
            LET pts == At(At(self.image_points, c), v)
            IN  pts # None /\ pts # NumPoints(At(self.object_points, v))
    IN  IF \E p \in pairs : OutOfRange(p[1], p[2]) THEN "IndexError"
        ELSE IF \E p \in pairs : Mismatch(p[1], p[2]) THEN "ValueError"
        ELSE "none"

\* the residual scalars of camera cam_idx: for each of its valid views, in
\* order, 2 scalars per point if the detection is not None
RECURSIVE CameraResiduals(_, _, _)
CameraResiduals(self, cam_idx, views) ==
    IF views = <<>> THEN <<>>
    ELSE
        LET view_idx == Head(views)
            pts == At(At(self.image_points, cam_idx), view_idx)
            block == IF pts # None
                     THEN Repeat([cam |-> cam_idx, view |-> view_idx],
                                 2 * NumPoints(At(self.object_points, view_idx)))
                     ELSE <<>>
        IN  block \o CameraResiduals(self, cam_idx, Tail(views))

\* _compute_residuals, when it does not raise: the residual vector, each
\* scalar named by the (camera, view) it comes from
RECURSIVE ResidualsFrom(_, _)
ResidualsFrom(self, cam_idx) ==
    IF cam_idx >= self.n_cameras THEN <<>>
    ELSE CameraResiduals(self, cam_idx,
                         SortedSeq(At(self.valid_views, cam_idx)))
         \o ResidualsFrom(self, cam_idx + 1)

compute_residuals(self) == ResidualsFrom(self, 0)

\* final_residuals[idx : idx + count]
Slice(list, idx, count) ==
    LET lo == IF idx < Len(list) THEN idx ELSE Len(list)
        hi == IF idx + count < Len(list) THEN idx + count ELSE Len(list)
    IN  SubSeq(list, lo + 1, hi)

\* a statistic of the residual scalars in `over`: float("inf"), or the
\* value np.sqrt(np.mean(over ** 2)) / np.max(np.abs(over)) / 0.0 of them
Infinity == [inf |-> TRUE, over |-> <<>>]
Zero == [inf |-> FALSE, over |-> <<>>]
Rms(r) == [inf |-> FALSE, over |-> r]
MaxAbs(r) == [inf |-> FALSE, over |-> r]

\* "if count_for_cam > 0: cam_residuals = final_residuals[idx : idx + count_for_cam]"
CameraSlice_Rest(final_residuals, idx, count_for_cam) ==
    Slice(final_residuals, idx, Len(final_residuals))
CameraSlice(final_residuals, idx, count_for_cam) ==
    IF count_for_cam > 0
    THEN Slice(final_residuals, idx, count_for_cam)
    ELSE <<>>

\* _compute_camera_statistics from camera cam_idx on, idx scalars consumed
RECURSIVE CameraStatisticsFrom(_, _, _, _)
CameraStatisticsFrom(self, final_residuals, cam_idx, idx) ==
    IF cam_idx >= self.n_cameras THEN <<>>
    ELSE
        LET n_valid_views == Cardinality(At(self.valid_views, cam_idx))
            count_for_cam == n_valid_views * (self.n_points * 2)
            cam_residuals == CameraSlice(final_residuals, idx, count_for_cam)
        IN  <<[rms |-> IF Len(cam_residuals) > 0
                       THEN Rms(cam_residuals) ELSE Infinity,
               n_valid_views |-> n_valid_views,
               max_error |-> IF Len(cam_residuals) > 0
                             THEN MaxAbs(cam_residuals) ELSE Infinity]>>
            \o CameraStatisticsFrom(self, final_residuals, cam_idx + 1,
                                    idx + count_for_cam)

compute_camera_statistics(self, final_residuals) ==
    CameraStatisticsFrom(self, final_residuals, 0, 0)

\* ------------------------------------- _compute_stereo_3d_error
Min(a, b) == IF a < b THEN a ELSE b
Abs(a) == IF a < 0 THEN 0 - a ELSE a

\* sorted(s) for a list of numbers
RECURSIVE SortInts(_)
SortInts(s) ==
    IF s = <<>> THEN <<>>
    ELSE LET i == CHOOSE k \in 1 .. Len(s) : \A j \in 1 .. Len(s) : s[k] <= s[j]
         IN  <<s[i]>> \o SortInts(SubSeq(s, 1, i - 1) \o SubSeq(s, i + 1, Len(s)))

\* 2 * np.median(s): the middle element, or the mean of the two middle
\* ones, doubled so that it stays an integer (nan, here 0, for no element)
Median2(s) ==
    LET t == SortInts(s)
        n == Len(t)
    IN  IF n = 0 THEN 0
        ELSE IF n % 2 = 1 THEN 2 * t[(n + 1) \div 2]
        ELSE t[n \div 2] + t[n \div 2 + 1]

\* the per-point 3-D errors (np.linalg.norm(..., axis=1)) a view can come
\* out with after triangulation and alignment, for up to 4 points
ViewErrorProfiles == {<<1, 1, 1, 1>>, <<9, 9, 9, 9>>, <<1, 1, 9, 9>>}
\* what the numerical steps of one view do: cv2.triangulatePoints raises,
\* _estimate_rigid_transform raises, or the view is aligned with errors
TriangulationRaises == [kind |-> "cv2.error", errors |-> <<>>]
AlignmentRaises == [kind |-> "LinAlgError", errors |-> <<>>]
Aligned(errors) == [kind |-> "aligned", errors |-> errors]
StereoOutcomes ==
    {TriangulationRaises, AlignmentRaises}
        \cup {Aligned(e) : e \in ViewErrorProfiles}

\* "image_points[c][view_idx] if view_idx < len(image_points[c]) else None"
Corners_LastKnown(image_pts, c, view_idx) ==
    LET row == At(image_pts, c)
    IN  IF view_idx < Len(row) THEN At(row, view_idx)
        ELSE IF Len(row) > 0 THEN At(row, Len(row) - 1) ELSE None
Corners(image_pts, c, view_idx) ==
    LET row == At(image_pts, c)
    IN  IF view_idx < Len(row) THEN At(row, view_idx) ELSE None

\* one iteration of the loop over views, given the two detections and the
\* number of points of the template: "continue" (a detection is None, or
\* the alignment raised and the inner except skipped the view), "raise" (an
\* exception outside the inner try), or "append" with the per-point errors
StereoViewOf(corners_cam0, corners_cam1, n_known, view_idx, outcome) ==
    IF corners_cam0 = None \/ corners_cam1 = None
    THEN [step |-> "continue", view_error |-> <<>>]
    ELSE IF outcome.kind = "cv2.error"
    THEN [step |-> "raise", view_error |-> <<>>]
    ELSE IF Min(n_known, Min(corners_cam0, corners_cam1))
                # Min(corners_cam0, corners_cam1)
            \/ outcome.kind = "LinAlgError"
    THEN [step |-> "continue", view_error |-> <<>>]
    ELSE [step |-> "append",
          view_error |->
              [p \in 1 .. Min(corners_cam0, corners_cam1) |->
                  [view |-> view_idx, point |-> p - 1,
                   err |-> outcome.errors[p]]]]

StereoView(object_pts, image_pts, view_idx, outcome) ==
    StereoViewOf(Corners(image_pts, 0, view_idx),
                 Corners(image_pts, 1, view_idx),
                 NumPoints(At(object_pts, view_idx)), view_idx, outcome)

\* np.median(view_error) of the per-point errors of a view, doubled
ViewMedian2(view_error) ==
    Median2([p \in 1 .. Len(view_error) |-> view_error[p].err])

\* the loop "for view_idx in range(len(object_points))" from view_idx on:
\* [raised, view_errors, all_3d_errors]
RECURSIVE StereoViewsFrom(_, _, _, _, _, _)
RECURSIVE StereoViewsAfter(_, _, _, _, _, _, _)
StereoViewsFrom(object_pts, image_pts, outcomes, view_idx, view_errors, all_3d_errors) ==
    IF view_idx >= Len(object_pts)
    THEN [raised |-> FALSE, view_errors |-> view_errors,
          all_3d_errors |-> all_3d_errors]
    ELSE IF Len(image_pts) < 2
    THEN [raised |-> TRUE, view_errors |-> view_errors,
          all_3d_errors |-> all_3d_errors]
    ELSE StereoViewsAfter(object_pts, image_pts, outcomes, view_idx,
                          view_errors, all_3d_errors,
                          StereoView(object_pts, image_pts, view_idx,
                                     At(outcomes, view_idx)))

\* the rest of the loop once the iteration for view_idx ended as `it`
StereoViewsAfter(object_pts, image_pts, outcomes, view_idx, view_errors, all_3d_errors, it) ==
    IF it.step = "raise"
    THEN [raised |-> TRUE, view_errors |-> view_errors,
          all_3d_errors |-> all_3d_errors]
    ELSE IF it.step = "continue"
    THEN StereoViewsFrom(object_pts, image_pts, outcomes, view_idx + 1,
                         view_errors, all_3d_errors)
    ELSE StereoViewsFrom(
             object_pts, image_pts, outcomes, view_idx + 1,
             Append(view_errors,
                    [view |-> view_idx,
                     median2 |-> ViewMedian2(it.view_error)]),
             all_3d_errors \o it.view_error)

\* "view_err <= threshold" with threshold = median + 2.5 * MAD of the
\* per-view medians; medians2 holds the doubled per-view medians
AbsoluteDeviations(medians2, median_view_error4) ==
    [i \in 1 .. Len(medians2) |-> Abs(2 * medians2[i] - median_view_error4)]
WithinThreshold(view_err2, medians2) ==
    8 * view_err2
        <= 4 * Median2(medians2)
           + 5 * Median2(AbsoluteDeviations(medians2, Median2(medians2)))

\* "[err for err, view_err in zip(all_3d_errors, view_errors)
\*   if view_err <= threshold]", given the doubled per-view medians
Zipped(all_3d_errors, medians2) ==
    [i \in 1 .. Min(Len(all_3d_errors), Len(medians2)) |->
        [err |-> all_3d_errors[i], view_err |-> medians2[i]]]
Unzipped(kept) == [i \in 1 .. Len(kept) |-> kept[i].err]
FilteredBy(all_3d_errors, medians2) ==
    Unzipped(SelectSeq(Zipped(all_3d_errors, medians2),
                       LAMBDA z : WithinThreshold(z.view_err, medians2)))
FilteredErrors(all_3d_errors, view_errors) ==
    FilteredBy(all_3d_errors,
               [i \in 1 .. Len(view_errors) |-> view_errors[i].median2])

\* what _compute_stereo_3d_error returns after its loop ended as `loop`
\* and the filter kept filtered_errors
StereoReturn(loop, filtered_errors) ==
    IF loop.raised
    THEN [none |-> TRUE, over |-> <<>>, raised |-> TRUE,
          view_errors |-> loop.view_errors,
          all_3d_errors |-> loop.all_3d_errors]
    ELSE [none |-> ~(Len(loop.all_3d_errors) > 0 /\ Len(filtered_errors) > 0),
          over |-> IF Len(loop.all_3d_errors) > 0
                   THEN filtered_errors ELSE <<>>,
          raised |-> FALSE,
          view_errors |-> loop.view_errors,
          all_3d_errors |-> loop.all_3d_errors]
StereoAfterLoop(loop) ==
    StereoReturn(loop, FilteredErrors(loop.all_3d_errors, loop.view_errors))

\* _compute_stereo_3d_error with the values of its locals when it returns:
\* none is TRUE when it returns None, and otherwise the figure is the RMS
\* over the per-point errors in `over`
Stereo3dErrorRun(cameras, object_pts, image_pts, outcomes) ==
    IF Len(cameras) < 2
    THEN [none |-> TRUE, over |-> <<>>, raised |-> FALSE,
          view_errors |-> <<>>, all_3d_errors |-> <<>>]
    ELSE StereoAfterLoop(
             StereoViewsFrom(object_pts, image_pts, outcomes, 0, <<>>, <<>>))

\* BundleAdjustment._compute_stereo_3d_error: its return value
StereoFigure(run) == [none |-> run.none, over |-> run.over]
compute_stereo_3d_error(cameras, object_pts, image_pts, outcomes) ==
    StereoFigure(Stereo3dErrorRun(cameras, object_pts, image_pts, outcomes))

\* the outcomes of every view when the triangulation behaves the same way
\* for all of them
UniformOutcomes(triangulation, n_views) ==
    Repeat(IF triangulation = "raise" THEN TriangulationRaises
           ELSE Aligned(<<1, 1, 1, 1>>),
           n_views)

\* the outcomes of scipy's least_squares beyond its residual evaluations
SolverOutcomes == {"converged", "max_nfev", "raise_at_x0", "raise_at_candidate"}
Oracles == [solver : SolverOutcomes, triangulation : {"ok", "raise"}]

\* the result optimize returns from its guard and from its except block
FailureResult(message) ==
    [keys |-> {"success", "error", "camera_stats", "overall_rms"},
     success |-> FALSE, error |-> message, camera_stats |-> <<>>,
     overall_rms |-> Infinity]

\* "if self.n_cameras < 1 or self.n_views < 1"
NotEnoughData_ViewsOnly(self) == self.n_views < 1
NotEnoughData(self) == self.n_cameras < 1 \/ self.n_views < 1

\* "if len(self.cameras) >= 2": the accuracy estimate is requested
StereoWanted_AnyRig(self) == Len(self.cameras) >= 1
StereoWanted(self) == Len(self.cameras) >= 2

\* the call of _compute_stereo_3d_error optimize makes, if any, and the
\* cameras it hands over
NoStereoRequest == [requested |-> FALSE, cameras |-> <<>>]
StereoRequest(self) ==
    IF StereoWanted(self) THEN [requested |-> TRUE, cameras |-> self.cameras]
    ELSE NoStereoRequest

\* the body of optimize's try block: [raised, self, stereo_request, value]
OptimizeTry(self, oracle) ==
    LET x0 == params_to_vector(self)
        candidate == [i \in 1 .. Len(x0) |->
                         [rvec |-> "candidate", tvec |-> "candidate"]]
        refined == [i \in 1 .. Len(x0) |->
                       [rvec |-> "refined", tvec |-> "refined"]]
        at_x0 == vector_to_params(self, x0)
    IN  IF ResidualError(at_x0) # "none"
        THEN [raised |-> ResidualError(at_x0), self |-> at_x0,
              stereo_request |-> NoStereoRequest]
        ELSE IF oracle.solver = "raise_at_x0"
        THEN [raised |-> "SolverError", self |-> at_x0,
              stereo_request |-> NoStereoRequest]
        ELSE IF oracle.solver = "raise_at_candidate"
        THEN [raised |-> "SolverError",
              self |-> vector_to_params(self, candidate),
              stereo_request |-> NoStereoRequest]
        ELSE
            LET done == vector_to_params(self, refined)
                final_res == compute_residuals(done)
                stereo == IF StereoWanted(done)
                          THEN compute_stereo_3d_error(
                                   done.cameras, done.object_points,
                                   done.image_points,
                                   UniformOutcomes(oracle.triangulation,
                                                   Len(done.object_points)))
                          ELSE [none |-> TRUE, over |-> <<>>]
            IN  [raised |-> "none", self |-> done,
                 stereo_request |-> StereoRequest(done),
                 value |->
                    [keys |-> {"success", "camera_stats", "overall_rms",
                               "overall_rms_mm", "n_iterations",
                               "optimized_cameras", "status", "message"},
                     success |-> (oracle.solver = "converged"),
                     camera_stats |->
                         compute_camera_statistics(done, final_res),
                     overall_rms |-> IF Len(final_res) > 0
                                     THEN Rms(final_res) ELSE Zero,
                     overall_rms_mm |-> stereo,
                     optimized_cameras |-> done.cameras]]

\* "except Exception as e": what an exception of the try block becomes
OptimizeExcept_Propagate(body) ==
    [raised |-> body.raised, ret |-> FailureResult("none")]
OptimizeExcept(body) ==
    [raised |-> "none", ret |-> FailureResult(body.raised)]

\* BundleAdjustment.optimize: [self, raised, ret, solver_called, failure,
\* stereo_request]
optimize(self, oracle) ==
    IF NotEnoughData(self)
    THEN [self |-> self, raised |-> "none",
          ret |-> FailureResult("NotEnough"),
          solver_called |-> FALSE, failure |-> "none",
          stereo_request |-> NoStereoRequest]
    ELSE
        LET body == OptimizeTry(self, oracle)
            caught == OptimizeExcept(body)
        IN  IF body.raised # "none"
            THEN [self |-> body.self, raised |-> caught.raised,
                  ret |-> caught.ret,
                  solver_called |-> TRUE, failure |-> body.raised,
                  stereo_request |-> body.stereo_request]
            ELSE [self |-> body.self, raised |-> "none", ret |-> body.value,
                  solver_called |-> TRUE, failure |-> "none",
                  stereo_request |-> body.stereo_request]

\* ------------------------------------------------- CalibrationStorage
\* A Python list is shared by reference: lists[k] holds the current
\* contents of the four parameter lists the k-th calibration session built,
\* and a field of the storage names the session whose list it refers to
\* (None: an empty list of its own, which it never hands out).

\* CalibrationStorage.__init__
NewCalibrationStorage ==
    [camera_matrices |-> None, dist_coeffs |-> None, rotations |-> None,
     translations |-> None, is_calibrated |-> FALSE]

\* CalibrationStorage.store_calibration
store_calibration(self, camera_mats, dist, rots, trans) ==
    [camera_matrices |-> camera_mats, dist_coeffs |-> dist,
     rotations |-> rots, translations |-> trans, is_calibrated |-> TRUE]

\* CalibrationStorage.get_calibration: None, or a dictionary of the lists
\* the storage refers to
get_calibration_Unchecked(self) ==
    [none |-> FALSE,
     camera_matrices |-> self.camera_matrices,
     dist_coeffs |-> self.dist_coeffs,
     rotations |-> self.rotations,
     translations |-> self.translations]
get_calibration(self) ==
    IF ~self.is_calibrated
    THEN [none |-> TRUE]
    ELSE [none |-> FALSE,
          camera_matrices |-> self.camera_matrices,
          dist_coeffs |-> self.dist_coeffs,
          rotations |-> self.rotations,
          translations |-> self.translations]

\* CalibrationStorage.clear_calibration
clear_calibration(self) == NewCalibrationStorage

\* the contents of the list a reference names
Contents(heap, ref, field) ==
    IF ref = None THEN <<>> ELSE heap[ref + 1][field]

\* what a reader of the dictionary get_calibration returned sees
Observed(heap, calib) ==
    IF calib.none THEN [none |-> TRUE]
    ELSE [none |-> FALSE,
          camera_matrices |-> Contents(heap, calib.camera_matrices, "camera_matrices"),
          dist_coeffs |-> Contents(heap, calib.dist_coeffs, "dist_coeffs"),
          rotations |-> Contents(heap, calib.rotations, "rotations"),
          translations |-> Contents(heap, calib.translations, "translations")]

\* the four lists a calibration session of n cameras builds
SessionLists(n) ==
    [camera_matrices |-> [i \in 1 .. n |-> [mtx |-> i - 1]],
     dist_coeffs |-> [i \in 1 .. n |-> [dist |-> i - 1]],
     rotations |-> [i \in 1 .. n |-> "seed"],
     translations |-> [i \in 1 .. n |-> "seed"]]

\* --------------------------------------------------- MeasurementModel
\* point_data: the camera index of each (cam_idx, x, y) pick
PointData ==
    {<<>>, <<0>>, <<0, 1>>, <<1, 0>>, <<0, 0>>, <<0, 2>>, <<0, 1, 1>>}
ElectrodeIds == {0}
\* the numerical steps (cv2.Rodrigues, the matrix products,
\* cv2.triangulatePoints) either work or raise
\* and then produce the point the picks' coordinates determine
TriangulatedPoints == {<<0, 0, 0>>, <<3, 4, 0>>}
NumericalOutcomes ==
    {[kind |-> "cv2.error", xyz |-> <<0, 0, 0>>]}
    \cup {[kind |-> "ok", xyz |-> p] : p \in TriangulatedPoints}

NoPoint == [none |-> TRUE]
Signal(name, message) == [signal |-> name, message |-> message]

\* "for cam_idx, x, y in point_data": the exception the loop over the first
\* picks ends with, if any
RECURSIVE ProjectionError(_, _, _)
ProjectionError(seen, point_data, numerical) ==
    IF point_data = <<>> THEN "none"
    ELSE LET cam_idx == Head(point_data)
         IN  IF \/ cam_idx >= Len(seen.camera_matrices)
                \/ cam_idx >= Len(seen.rotations)
                \/ cam_idx >= Len(seen.translations)
             THEN "IndexError"
             ELSE IF numerical.kind = "cv2.error" THEN "cv2.error"
             ELSE ProjectionError(seen, Tail(point_data), numerical)

\* the body of triangulate_point's try block: [raised, ret, signals]
TriangulateTry(self, heap, point_data, numerical) ==
    LET calib == get_calibration(self)
        seen == Observed(heap, calib)
    IN  IF calib.none
        THEN [raised |-> "none", ret |-> NoPoint,
              signals |-> <<Signal("error_occurred",
                                   "No calibration data available")>>]
        ELSE IF ProjectionError(seen, point_data, numerical) # "none"
        THEN [raised |-> ProjectionError(seen, point_data, numerical),
              ret |-> NoPoint, signals |-> <<>>]
        ELSE IF Len(point_data) < 2
        THEN [raised |-> "IndexError", ret |-> NoPoint, signals |-> <<>>]
        ELSE [raised |-> "none",
              ret |-> [none |-> FALSE, point_3d |-> numerical.xyz],
              signals |-> <<>>]

\* "except Exception as e" of triangulate_point
TriangulateExcept_Propagate(body) == body
TriangulateExcept(body) ==
    [raised |-> "none", ret |-> NoPoint,
     signals |-> <<Signal("triangulation_failed", body.raised)>>]

\* MeasurementModel.triangulate_point: [raised, ret, signals, failure]
triangulate_point(self, heap, point_data, numerical) ==
    LET body == TriangulateTry(self, heap, point_data, numerical)
        caught == TriangulateExcept(body)
    IN  IF body.raised # "none"
        THEN [raised |-> caught.raised, ret |-> caught.ret,
              signals |-> caught.signals, failure |-> body.raised]
        ELSE [raised |-> "none", ret |-> body.ret,
              signals |-> body.signals, failure |-> "none"]

\* MeasurementModel._calculate_confidence, in halves: 0.0, or
\* min(1.0, n_views / 2)
calculate_confidence2_Unclamped(point_data) ==
    LET n_views == Len(point_data)
    IN  IF n_views < 2 THEN 0 ELSE n_views
calculate_confidence2(point_data) ==
    LET n_views == Len(point_data)
    IN  IF n_views < 2 THEN 0 ELSE Min(2, n_views)

NoPosition == [none |-> TRUE]
\* the positions the navigation system reports
NavigationPoints == {<<0, 0, 0>>, <<1, 0, 0>>}
\* self.accuracy_threshold = 1.0, squared
AccuracyThreshold2 == 1
\* "result.discrepancy <= self.accuracy_threshold"
MeetsAccuracy(squared) == squared <= AccuracyThreshold2
\* result.discrepancy = np.linalg.norm(camera - navigation), squared, and
\* result.is_valid when both positions are known
Compared(camera_position, navigation_position) ==
    [discrepancy |->
        [none |-> FALSE,
         squared |-> SquaredNorm(VecSub(camera_position.position_3d,
                                        navigation_position.position_3d))],
     is_valid |->
         MeetsAccuracy(SquaredNorm(VecSub(camera_position.position_3d,
                                          navigation_position.position_3d)))]
\* discrepancy=None, is_valid=False
NotCompared == [discrepancy |-> [none |-> TRUE], is_valid |-> FALSE]

\* the ElectrodePosition compute_measurement builds from point_3d
CameraPosition(point_3d, point_data) ==
    [none |-> FALSE, position_3d |-> point_3d,
     confidence2 |-> calculate_confidence2(point_data), source |-> "camera"]

\* "if electrode_id in self.current_measurements: ... else: ...": the result
\* compute_measurement emits and returns
MeasurementOf(measurements, electrode_id, camera_position) ==
    IF electrode_id \in DOMAIN measurements
    THEN IF ~measurements[electrode_id].navigation_position.none
         THEN [camera_position |-> camera_position,
               navigation_position |->
                   measurements[electrode_id].navigation_position,
               compared |->
                   Compared(camera_position,
                            measurements[electrode_id].navigation_position)]
         ELSE measurements[electrode_id]
    ELSE [camera_position |-> camera_position,
          navigation_position |-> NoPosition,
          compared |-> NotCompared]

\* current_measurements with result stored for electrode_id
WithMeasurement(measurements, electrode_id, result) ==
    [e \in DOMAIN measurements \cup {electrode_id} |->
        IF e = electrode_id THEN result ELSE measurements[e]]

\* what compute_measurement leaves behind and returns once it has result
Measured(measurements, t, electrode_id, result) ==
    [raised |-> "none",
     ret |-> [none |-> FALSE, result |-> result],
     signals |-> t.signals \o <<Signal("measurement_updated", "result")>>,
     failure |-> "none",
     triangulated |-> t.ret,
     current_measurements |->
         WithMeasurement(measurements, electrode_id, result)]

\* compute_measurement after triangulate_point returned t
ComputeFrom(measurements, t, point_data, electrode_id) ==
    IF t.raised # "none" \/ t.ret.none
    THEN [raised |-> t.raised, ret |-> [none |-> TRUE],
          signals |-> t.signals, failure |-> t.failure,
          triangulated |-> t.ret,
          current_measurements |-> measurements]
    ELSE Measured(measurements, t, electrode_id,
                  MeasurementOf(measurements, electrode_id,
                                CameraPosition(t.ret.point_3d, point_data)))

\* MeasurementModel.compute_measurement:
\* [raised, ret, signals, failure, triangulated, current_measurements]
compute_measurement(measurements, self, heap, point_data, electrode_id, numerical) ==
    ComputeFrom(measurements,
                triangulate_point(self, heap, point_data, numerical),
                point_data, electrode_id)

\* the ElectrodePosition add_navigation_position builds from position
NavigationPosition(position) ==
    [none |-> FALSE, position_3d |-> position, confidence2 |-> 2,
     source |-> "navigation"]

\* "if result.camera_position: ...": discrepancy and is_valid of the stored
\* measurement once nav_position is its navigation position
NavigationCompared_Kept(stored, nav_position) == stored.compared
NavigationCompared(stored, nav_position) ==
    IF ~stored.camera_position.none
    THEN Compared(stored.camera_position, nav_position)
    ELSE stored.compared

\* the measurement add_navigation_position leaves for electrode_id
NavigationResult(measurements, electrode_id, nav_position) ==
    IF electrode_id \in DOMAIN measurements
    THEN [camera_position |-> measurements[electrode_id].camera_position,
          navigation_position |-> nav_position,
          compared |-> NavigationCompared(measurements[electrode_id],
                                          nav_position)]
    ELSE [camera_position |-> NoPosition,
          navigation_position |-> nav_position,
          compared |-> NotCompared]

\* MeasurementModel.add_navigation_position: the new current_measurements
add_navigation_position(measurements, electrode_id, position) ==
    WithMeasurement(measurements, electrode_id,
                    NavigationResult(measurements, electrode_id,
                                     NavigationPosition(position)))

NoCall == [op |-> "none", error |-> "none", ret |-> FALSE, nargs |-> 0,
           present |-> 0]

Init ==
    /\ settings \in Settings
    /\ n_cameras = 0
    /\ object_points = <<>>
    /\ image_points = <<>>
    /\ valid_views = <<>>
    /\ camera_matrices = <<>>
    /\ dist_coeffs = <<>>
    /\ rotations = <<>>
    /\ translations = <<>>
    /\ ba = NewBundleAdjustment
    /\ last = NoCall
    /\ first_template = <<>>
    /\ storage = NewCalibrationStorage
    /\ lists = <<>>
    /\ published = [none |-> TRUE]
    /\ current_measurements = <<>>
    /\ worker = [pc |-> "idle"]

\* the state after construction under the default pattern configuration
InitDefault == Init /\ settings = DefaultSettings

\* settings_service changing a calibration.* setting between calls
UpdateSettings ==
    /\ \E cfg \in Settings : cfg # settings /\ settings' = cfg
    /\ UNCHANGED <<store, resection, ba, last, first_template, worker, measurement>>

\* CalibrationModel.reset
Reset ==
    /\ n_cameras' = 0
    /\ object_points' = <<>>
    /\ image_points' = <<>>
    /\ valid_views' = <<>>
    /\ camera_matrices' = <<>>
    /\ dist_coeffs' = <<>>
    /\ rotations' = <<>>
    /\ translations' = <<>>
    /\ last' = [NoCall EXCEPT !.op = "reset"]
    /\ first_template' = <<>>
    /\ UNCHANGED <<settings, ba, measurement, worker>>

\* CalibrationModel.initialize_cameras, called to begin a session
InitializeCameras ==
    \E n \in 0 .. MaxCams :
        /\ n_cameras' = n
        /\ image_points' = Repeat(<<>>, n)
        /\ valid_views' = Repeat({}, n)
        /\ last' = [NoCall EXCEPT !.op = "initialize_cameras", !.nargs = n]
        /\ first_template' = <<>>
        /\ UNCHANGED <<settings, object_points, resection, ba, measurement, worker>>

\* CalibrationModel.process_view(view_idx, frame_data): its effect on the
\* model's fields and its outcome
ProcessViewCall(view_idx, frame_data) ==
    LET n == Len(frame_data)
        branch == CheckCameraCount(n_cameras, n)
        call == [NoCall EXCEPT !.op = "process_view", !.nargs = n,
                               !.present = PresentCount(frame_data)]
    IN  IF branch = "raise"
        THEN /\ last' = [call EXCEPT !.error = "InconsistentCameraCount"]
             /\ UNCHANGED store
        ELSE
            LET ip0 == IF branch = "initialize" THEN Repeat(<<>>, n)
                       ELSE image_points
                vv0 == IF branch = "initialize" THEN Repeat({}, n)
                       ELSE valid_views
                r == StoreDetections(ip0, vv0, view_idx, frame_data, 0, 0)
            IN  /\ n_cameras' = n
                /\ object_points' =
                       EnsureTemplate(object_points, view_idx, settings)
                /\ image_points' = r.ip
                /\ valid_views' = r.vv
                /\ last' = IF r.error # "none"
                           THEN [call EXCEPT !.error = r.error]
                           ELSE [call EXCEPT
                                   !.ret = ProcessViewReturn(r.valid_detections)]

\* process_view within one pattern configuration
ProcessView ==
    \E view_idx \in ViewIndices, frame_data \in FrameData :
        /\ ProcessViewCall(view_idx, frame_data)
        /\ UNCHANGED <<settings, resection, ba, first_template, worker, measurement>>

\* process_view as the capture path calls it: every camera's detector
\* returned either no detection or a full one
CaptureView ==
    \E view_idx \in ViewIndices, frame_data \in CapturedFrames :
        /\ ProcessViewCall(view_idx, frame_data)
        /\ UNCHANGED <<settings, resection, ba, first_template, worker, measurement>>

\* process_view with view indices that may skip one, remembering the
\* template built from the settings when each view index is first recorded
RecordView ==
    \E view_idx \in SkippingViewIndices, frame_data \in FrameData :
        /\ ProcessViewCall(view_idx, frame_data)
        /\ first_template' =
               IF view_idx \in DOMAIN first_template \/ last'.error # "none"
               THEN first_template
               ELSE [v \in DOMAIN first_template \cup {view_idx} |->
                       IF v = view_idx THEN objp(settings)
                       ELSE first_template[v]]
        /\ UNCHANGED <<settings, resection, ba, measurement, worker>>

\* ------------------------------------------- perform_global_calibration
\* cv2.calibrateCamera beyond what the stored data decides: the first camera
\* whose resectioning fails numerically (MaxCams: none) and how it fails
ResectionOracles ==
    [fail_cam : 0 .. MaxCams, kind : {"not_ret", "cv2.error"}]

NoError == [kind |-> "none", camera |-> None]

\* the exception the body of calibrate_single_cameras' loop ends with for
\* camera cam_idx, if any; camera is the index its message names
ResectionError_NoEmptyCheck(cam_idx, oracle) ==
    LET views == At(valid_views, cam_idx)
        row == At(image_points, cam_idx)
    IN  IF \E v \in views : v >= Len(object_points) \/ v >= Len(row)
        THEN [kind |-> "IndexError", camera |-> None]
        ELSE IF \/ views = {}
                \/ \E v \in views :
                      \/ At(row, v) = None
                      \/ At(row, v) # NumPoints(At(object_points, v))
        THEN [kind |-> "cv2.error", camera |-> None]
        ELSE IF oracle.fail_cam = cam_idx /\ oracle.kind = "cv2.error"
        THEN [kind |-> "cv2.error", camera |-> None]
        ELSE IF oracle.fail_cam = cam_idx
        THEN [kind |-> "ResectioningFailed", camera |-> cam_idx]
        ELSE NoError
ResectionError(cam_idx, oracle) ==
    LET views == At(valid_views, cam_idx)
        row == At(image_points, cam_idx)
    IN  IF views = {}
        THEN [kind |-> "NoValidViews", camera |-> cam_idx]
        ELSE IF \E v \in views : v >= Len(object_points) \/ v >= Len(row)
        THEN [kind |-> "IndexError", camera |-> None]
        ELSE IF \E v \in views :
                   \/ At(row, v) = None
                   \/ At(row, v) # NumPoints(At(object_points, v))
        THEN [kind |-> "cv2.error", camera |-> None]
        ELSE IF oracle.fail_cam = cam_idx /\ oracle.kind = "cv2.error"
        THEN [kind |-> "cv2.error", camera |-> None]
        ELSE IF oracle.fail_cam = cam_idx
        THEN [kind |-> "ResectioningFailed", camera |-> cam_idx]
        ELSE NoError

\* calibrate_single_cameras from camera cam_idx on: the number of cameras
\* whose parameters were appended, and the exception that ended the loop
RECURSIVE calibrate_single_cameras(_, _)
calibrate_single_cameras(cam_idx, oracle) ==
    IF cam_idx >= n_cameras
    THEN [n_done |-> cam_idx, error |-> NoError]
    ELSE IF ResectionError(cam_idx, oracle) # NoError
    THEN [n_done |-> cam_idx, error |-> ResectionError(cam_idx, oracle)]
    ELSE calibrate_single_cameras(cam_idx + 1, oracle)

\* the CameraParameters built for camera i from the resectioning output
SeedCamera(i) ==
    [camera_matrix |-> [mtx |-> i], dist_coeffs |-> [dist |-> i],
     rvec |-> "seed", tvec |-> "seed"]

\* _format_calibration_results
format_calibration_results(results) ==
    LET cams == results.optimized_cameras
    IN  [keys |-> {"success", "overall_rms", "overall_rms_mm", "per_camera",
                   "baseline"},
         success |-> results.success,
         overall_rms |-> results.overall_rms,
         overall_rms_mm |-> results.overall_rms_mm,
         per_camera |->
             [i \in 1 .. Len(results.camera_stats) |->
                 [rms |-> results.camera_stats[i].rms,
                  n_views |-> results.camera_stats[i].n_valid_views,
                  max_error |-> results.camera_stats[i].max_error]],
         baseline |->
             [p \in {q \in (1 .. Len(cams)) \X (1 .. Len(cams)) : q[1] < q[2]} |->
                 <<cams[p[1]].rvec, cams[p[1]].tvec,
                   cams[p[2]].rvec, cams[p[2]].tvec>>]]

\* what perform_global_calibration returns when an exception reaches its
\* except block
CalibrationFailed(error) ==
    [keys |-> {"success", "error"}, success |-> FALSE, error |-> error]

\* the part of perform_global_calibration after calibrate_single_cameras
\* returned: [ret, optimize_called]
GlobalOptimization(oracle) ==
    LET cameras == [i \in 1 .. n_cameras |-> SeedCamera(i - 1)]
        loaded == set_calibration_data(
                      set_camera_parameters(NewBundleAdjustment, cameras),
                      object_points, image_points)
        results == optimize(loaded.self, oracle)
    IN  IF loaded.error # "none"
        THEN [ret |-> CalibrationFailed([kind |-> loaded.error, camera |-> None]),
              optimize_called |-> FALSE]
        ELSE IF results.raised # "none"
        THEN [ret |-> CalibrationFailed([kind |-> results.raised, camera |-> None]),
              optimize_called |-> TRUE]
        ELSE IF results.ret.success
        THEN [ret |-> format_calibration_results(results.ret),
              optimize_called |-> TRUE]
        ELSE [ret |-> [keys |-> {"success", "message", "overall_rms"},
                       success |-> FALSE,
                       message |-> "Global optimization failed",
                       overall_rms |-> Infinity],
              optimize_called |-> TRUE]

\* the fields and the result perform_global_calibration leaves behind
\* when calibrate_single_cameras ended as `single` and the rest as `global`
CalibrationOutcome(single, global) ==
    /\ camera_matrices' = [i \in 1 .. single.n_done |-> [mtx |-> i - 1]]
    /\ dist_coeffs' = [i \in 1 .. single.n_done |-> [dist |-> i - 1]]
    /\ rotations' = [i \in 1 .. single.n_done |-> "seed"]
    /\ translations' = [i \in 1 .. single.n_done |-> "seed"]
    /\ last' = [op |-> "perform_global_calibration",
                ret |-> global.ret,
                optimize_called |-> global.optimize_called]

\* CalibrationModel.perform_global_calibration
PerformGlobalCalibration ==
    /\ \E resect \in ResectionOracles :
        LET single == calibrate_single_cameras(0, resect)
        IN  IF single.error # NoError
            THEN CalibrationOutcome(
                     single,
                     [ret |-> CalibrationFailed(single.error),
                      optimize_called |-> FALSE])
            ELSE \E oracle \in Oracles :
                     CalibrationOutcome(single, GlobalOptimization(oracle))
    /\ UNCHANGED <<settings, store, ba, first_template, worker, measurement>>

\* ------------------------------------- BundleAdjustment through its methods
Templates == {objp(cfg) : cfg \in Settings}
CameraLists == {[i \in 1 .. n |-> SeedCamera(i - 1)] : n \in 0 .. MaxCams}
ObjectPointLists == UNION {[1 .. n -> Templates] : n \in 0 .. MaxView + 1}
ImageRows ==
    UNION {[1 .. n -> {None} \cup DetectionCounts] : n \in 0 .. MaxView + 1}
ImagePointLists == UNION {[1 .. n -> ImageRows] : n \in 0 .. MaxCams}

\* ba = BundleAdjustment()
Construct ==
    /\ ba' = NewBundleAdjustment
    /\ last' = [op |-> "BundleAdjustment"]
    /\ UNCHANGED <<settings, store, resection, first_template, worker, measurement>>

\* ba.set_camera_parameters(cameras), called as perform_global_calibration
\* calls it: on the instance just constructed
SetCameraParameters ==
    /\ last.op = "BundleAdjustment"
    /\ \E cameras \in CameraLists :
        /\ ba' = set_camera_parameters(ba, cameras)
        /\ last' = [op |-> "set_camera_parameters"]
    /\ UNCHANGED <<settings, store, resection, first_template, worker, measurement>>

\* ba.set_calibration_data(object_points, image_points), called as
\* perform_global_calibration calls it: once, after set_camera_parameters
SetCalibrationData ==
    /\ last.op = "set_camera_parameters"
    /\ \E object_pts \in ObjectPointLists, image_pts \in ImagePointLists :
        LET r == set_calibration_data(ba, object_pts, image_pts)
        IN  /\ ba' = r.self
            /\ last' = [op |-> "set_calibration_data", raised |-> r.error]
    /\ UNCHANGED <<settings, store, resection, first_template, worker, measurement>>

\* ba.optimize()
Optimize ==
    /\ \E oracle \in Oracles :
        LET r == optimize(ba, oracle)
        IN  /\ ba' = r.self
            /\ last' = [op |-> "optimize", raised |-> r.raised, ret |-> r.ret,
                        solver_called |-> r.solver_called,
                        failure |-> r.failure,
                        stereo_request |-> r.stereo_request]
    /\ UNCHANGED <<settings, store, resection, first_template, worker, measurement>>

\* ---------------------------- _compute_stereo_3d_error through its caller
\* image_points[c] of a session of n_views views: one entry per view, or
\* the last view not recorded for this camera
StereoImageRows(n_views) ==
    UNION {[1 .. n -> {None} \cup DetectionCounts] :
               n \in {n_views, n_views - 1} \cap Nat}
\* the (object_points, image_points) of a session of n_views views and
\* n_cams cameras, every template built under one pattern configuration
StereoData(n_cams, n_views) ==
    {[object_pts |-> Repeat(objp(cfg), n_views), image_pts |-> rows] :
         cfg \in Settings, rows \in [1 .. n_cams -> StereoImageRows(n_views)]}

\* a BundleAdjustment instance is loaded with one or two cameras and the
\* data of up to MaxStereoViews views
LoadStereoData ==
    /\ last.op = "none"
    /\ \E n_cams \in 1 .. 2, n_views \in 0 .. MaxStereoViews :
        \E data \in StereoData(n_cams, n_views) :
            /\ ba' = set_calibration_data(
                         set_camera_parameters(
                             NewBundleAdjustment,
                             [i \in 1 .. n_cams |-> SeedCamera(i - 1)]),
                         data.object_pts, data.image_pts).self
            /\ last' = [op |-> "set_calibration_data", raised |-> "none"]
    /\ UNCHANGED <<settings, store, resection, first_template, worker, measurement>>

\* the views whose numerical steps run: both detections are there
BothPresent(image_pts, view_idx) ==
    /\ Len(image_pts) >= 2
    /\ view_idx < Len(At(image_pts, 0)) /\ At(At(image_pts, 0), view_idx) # None
    /\ view_idx < Len(At(image_pts, 1)) /\ At(At(image_pts, 1), view_idx) # None

\* self._compute_stereo_3d_error(self.cameras, self.object_points,
\* self.image_points), as optimize calls it; the numerical steps of a view
\* that is not reached have no outcome to choose
ComputeStereo3dError ==
    /\ last.op = "set_calibration_data"
    /\ \E outcomes \in [1 .. Len(ba.object_points) -> StereoOutcomes] :
        /\ \A v \in 0 .. Len(ba.object_points) - 1 :
               ~BothPresent(ba.image_points, v)
               => At(outcomes, v) = Aligned(<<1, 1, 1, 1>>)
        /\ last' = [op |-> "compute_stereo_3d_error",
                    outcomes |-> outcomes,
                    run |-> Stereo3dErrorRun(ba.cameras, ba.object_points,
                                             ba.image_points, outcomes)]
    /\ UNCHANGED <<settings, store, resection, ba, first_template, worker, measurement>>

\* ------------------------------ CalibrationStorage and MeasurementModel
\* a calibration session builds the parameter lists of its cameras
\* (calibrate_single_cameras binds four new lists and fills them)
NewSession ==
    /\ Len(lists) < MaxSessions
    /\ \E n \in 1 .. MaxCams : lists' = Append(lists, SessionLists(n))
    /\ last' = [op |-> "calibrate_single_cameras"]
    /\ UNCHANGED <<settings, store, resection, ba, first_template, worker, storage,
                   published, current_measurements>>

\* calibration_storage.store_calibration(...) with the lists of a session
StoreCalibration ==
    /\ \E k \in 0 .. Len(lists) - 1 :
        /\ storage' = store_calibration(storage, k, k, k, k)
        /\ published' = Observed(lists, get_calibration(storage'))
    /\ last' = [op |-> "store_calibration"]
    /\ UNCHANGED <<settings, store, resection, ba, first_template, worker, lists,
                   current_measurements>>

\* calibration_storage.clear_calibration()
ClearCalibration ==
    /\ storage' = clear_calibration(storage)
    /\ published' = [none |-> TRUE]
    /\ last' = [op |-> "clear_calibration"]
    /\ UNCHANGED <<settings, store, resection, ba, first_template, worker, lists,
                   current_measurements>>

\* calibration_storage.get_calibration() and what its caller reads
GetCalibration ==
    /\ last' = [op |-> "get_calibration",
                ret |-> Observed(lists, get_calibration(storage))]
    /\ UNCHANGED <<settings, store, resection, ba, first_template, worker,
                   measurement>>

\* a holder of one of a session's lists (the session that built it, or a
\* caller of get_calibration while the storage refers to it) replaces its
\* first element in place
MutateList ==
    /\ \E k \in 1 .. Len(lists), field \in {"rotations", "translations"} :
        /\ lists[k][field][1] # "changed"
        /\ lists' = [lists EXCEPT ![k][field][1] = "changed"]
    /\ last' = [op |-> "list.__setitem__"]
    /\ UNCHANGED <<settings, store, resection, ba, first_template, worker, storage,
                   published, current_measurements>>

\* measurement_model.triangulate_point(point_data)
TriangulatePointCall(point_data) ==
    /\ \E numerical \in NumericalOutcomes :
        LET r == triangulate_point(storage, lists, point_data, numerical)
        IN  last' = [op |-> "triangulate_point", nargs |-> Len(point_data),
                     raised |-> r.raised, ret |-> r.ret,
                     signals |-> r.signals, failure |-> r.failure]
    /\ UNCHANGED <<settings, store, resection, ba, first_template, worker,
                   measurement>>

TriangulatePoint == \E point_data \in PointData : TriangulatePointCall(point_data)

\* triangulate_point with one pick in camera 0 and one in camera 1
TriangulatePair == TriangulatePointCall(<<0, 1>>)

\* measurement_model.compute_measurement(point_data, electrode_id)
ComputeMeasurement ==
    /\ \E point_data \in PointData, electrode_id \in ElectrodeIds,
          numerical \in NumericalOutcomes :
        LET r == compute_measurement(current_measurements, storage, lists,
                                     point_data, electrode_id, numerical)
        IN  /\ current_measurements' = r.current_measurements
            /\ last' = [op |-> "compute_measurement",
                        nargs |-> Len(point_data),
                        electrode_id |-> electrode_id,
                        triangulated |-> r.triangulated,
                        raised |-> r.raised, ret |-> r.ret,
                        signals |-> r.signals, failure |-> r.failure]
    /\ UNCHANGED <<settings, store, resection, ba, first_template, worker, storage,
                   lists, published>>

\* measurement_model.add_navigation_position(electrode_id, position)
AddNavigationPosition ==
    /\ \E electrode_id \in ElectrodeIds, position \in NavigationPoints :
        /\ current_measurements' =
               add_navigation_position(current_measurements, electrode_id,
                                       position)
        /\ last' = [op |-> "add_navigation_position",
                    electrode_id |-> electrode_id]
    /\ UNCHANGED <<settings, store, resection, ba, first_template, worker, storage,
                   lists, published>>

\* measurement_model._calculate_confidence(point_data)
CalculateConfidence ==
    /\ \E point_data \in PointData :
        last' = [op |-> "_calculate_confidence", nargs |-> Len(point_data),
                 confidence2 |-> calculate_confidence2(point_data)]
    /\ UNCHANGED <<settings, store, resection, ba, first_template, worker,
                   measurement>>

\* the Observation Store within one pattern configuration
Next == Reset \/ InitializeCameras \/ ProcessView

Spec == Init /\ [][Next]_vars

\* the Observation Store with settings that change between calls and view
\* indices that need not be contiguous
NextSession == UpdateSettings \/ Reset \/ InitializeCameras \/ RecordView

SpecSession == Init /\ [][NextSession]_vars

\* a calibration session: views are captured, then calibrated
NextCalibration ==
    Reset \/ InitializeCameras \/ CaptureView \/ PerformGlobalCalibration

SpecCalibration == InitDefault /\ [][NextCalibration]_vars

\* one BundleAdjustment instance driven through its methods
NextBundleAdjustment ==
    Construct \/ SetCameraParameters \/ SetCalibrationData \/ Optimize

SpecBundleAdjustment == InitDefault /\ [][NextBundleAdjustment]_vars

\* the Accuracy Validator on the data of one session
NextValidator == LoadStereoData \/ ComputeStereo3dError

SpecValidator == InitDefault /\ [][NextValidator]_vars

\* measurements against the stored calibration
NextMeasurement ==
    \/ NewSession \/ StoreCalibration \/ ClearCalibration
    \/ TriangulatePoint \/ ComputeMeasurement \/ AddNavigationPosition
    \/ CalculateConfidence

SpecMeasurement == InitDefault /\ [][NextMeasurement]_vars

\* the stored calibration while the holders of its lists go on using them
NextStorage ==
    \/ NewSession \/ StoreCalibration \/ ClearCalibration \/ GetCalibration
    \/ MutateList \/ TriangulatePair

SpecStorage == InitDefault /\ [][NextStorage]_vars

\* ------------------------------------------- _estimate_rigid_transform
\* Points are triples of integers, matrices are triples of rows.  The
\* pattern configurations below give templates whose centroid is integral.
AlignmentPatterns == [rows : {1, 2}, cols : {2, 3}, square_size : {10}]

\* objp of process_view, point by point: np.mgrid[0:rows, 0:cols].T
\* .reshape(-1, 2) * square_size in the first two columns, 0 in the third
TemplatePoints(cfg) ==
    [k \in 1 .. cfg.rows * cfg.cols |->
        <<((k - 1) % cfg.rows) * cfg.square_size,
          ((k - 1) \div cfg.rows) * cfg.square_size, 0>>]

Identity3 == <<<<1, 0, 0>>, <<0, 1, 0>>, <<0, 0, 1>>>>
\* np.linalg.det(M)
Det(M) ==
    M[1][1] * (M[2][2] * M[3][3] - M[2][3] * M[3][2])
    - M[1][2] * (M[2][1] * M[3][3] - M[2][3] * M[3][1])
    + M[1][3] * (M[2][1] * M[3][2] - M[2][2] * M[3][1])

\* the sum of the points P[from .. Len(P)]
RECURSIVE VecSum(_, _)
VecSum(P, from) ==
    IF from > Len(P) THEN <<0, 0, 0>>
    ELSE VecAdd(P[from], VecSum(P, from + 1))
\* np.mean(P, axis=0)
MeanOf(total, n) == Vector3(LAMBDA i : total[i] \div n)
Centroid(P) == MeanOf(VecSum(P, 1), Len(P))
\* P - centroid
Centered(P, centroid) == [k \in 1 .. Len(P) |-> VecSub(P[k], centroid)]
\* the outer product of the points a and b, added to the matrix rest
OuterPlus(a, b, rest) == Matrix3(LAMBDA i, j : a[i] * b[j] + rest[i][j])
\* AA.T @ BB, summed from point `from` on
RECURSIVE CrossCovariance(_, _, _)
CrossCovariance(AA, BB, from) ==
    IF from > Len(AA) THEN <<<<0, 0, 0>>, <<0, 0, 0>>, <<0, 0, 0>>>>
    ELSE OuterPlus(AA[from], BB[from], CrossCovariance(AA, BB, from + 1))

\* the orthogonal matrices with integer entries: one entry of 1 or -1 in
\* every row and column
Permutations3 == {p \in [1 .. 3 -> 1 .. 3] : \A i, j \in 1 .. 3 : p[i] = p[j] => i = j}
Orthogonals ==
    {Matrix3(LAMBDA i, j : IF p[i] = j THEN s[i] ELSE 0) :
        p \in Permutations3, s \in [1 .. 3 -> {1, -1}]}

\* M is diag(singular values): non-negative, in descending order
IsSingularValues(M) ==
    /\ \A i, j \in 1 .. 3 : i # j => M[i][j] = 0
    /\ M[1][1] >= M[2][2] /\ M[2][2] >= M[3][3] /\ M[3][3] >= 0
\* U.T @ H, which is diag(S) @ Vt when H = U @ diag(S) @ Vt
LeftReduced(U, H) == MatMul(Transposed(U), H)
\* the Vt that complete U to a factorisation of H, M being U.T @ H
RightFactors(M) ==
    {Vt \in Orthogonals : IsSingularValues(MatMul(M, Transposed(Vt)))}
\* np.linalg.svd(H): the factorisations H = U @ diag(S) @ Vt it may return,
\* among those with integer factors
svd(H) ==
    UNION {{[U |-> U, Vt |-> Vt] : Vt \in RightFactors(LeftReduced(U, H))} :
               U \in Orthogonals}

\* "R = Vt.T @ U.T"
RotationOf(U, Vt) == MatMul(Transposed(Vt), Transposed(U))
\* "Vt[-1,:] *= -1"
NegateLastRow(Vt) ==
    Matrix3(LAMBDA i, j : IF i = 3 THEN -(Vt[i][j]) ELSE Vt[i][j])
\* "Ensure right-handed coordinate system": the Vt the rotation is formed from
EnsureRightHanded_Unchanged(U, Vt) == Vt
EnsureRightHanded(U, Vt) ==
    IF Det(RotationOf(U, Vt)) < 0
    THEN NegateLastRow(Vt) ELSE Vt

\* the rotation and translation for factors f of H and the two centroids
RigidTransformOf(f, R, centroid_A, centroid_B) ==
    [naive |-> RotationOf(f.U, f.Vt),
     R |-> R,
     t |-> VecSub(centroid_A, MatVec(R, centroid_B))]

\* H = AA.T @ BB of _estimate_rigid_transform(A, B)
Covariance(A, B) ==
    CrossCovariance(Centered(A, Centroid(A)), Centered(B, Centroid(B)), 1)

\* BundleAdjustment._estimate_rigid_transform(A, B), np.linalg.svd having
\* returned the factors f: [naive, R, t]
estimate_rigid_transform(A, B, f) ==
    RigidTransformOf(f, RotationOf(f.U, EnsureRightHanded(f.U, f.Vt)),
                     Centroid(A), Centroid(B))

\* "transformed_points = (R @ triangulated_3d.T + t.reshape(-1, 1)).T" and
\* "view_error = np.linalg.norm(transformed_points - known_3d_subset,
\* axis=1)", squared (SquaredNorm)
AlignedErrors(fit, known_3d_subset, triangulated_3d) ==
    [k \in 1 .. Len(triangulated_3d) |->
        SquaredNorm(VecSub(VecAdd(MatVec(fit.R, triangulated_3d[k]), fit.t),
                           known_3d_subset[k]))]

\* the positions the triangulation may put a template at: moved by an
\* orthogonal matrix (a rotation, or a mirror image) and a translation
Translations == {<<0, 0, 0>>, <<3, -4, 100>>}
Moved(P, Q, s) == [k \in 1 .. Len(P) |-> VecAdd(MatVec(Q, P[k]), s)]

\* the triangulation of one view in _compute_stereo_3d_error: the template
\* is known_3d_subset, the triangulation put its points at Q @ p + s
TriangulateView ==
    /\ last.op = "none"
    /\ \E cfg \in AlignmentPatterns, Q \in Orthogonals, s \in Translations :
        last' = [op |-> "triangulatePoints",
                 known |-> TemplatePoints(cfg),
                 triangulated |-> Moved(TemplatePoints(cfg), Q, s),
                 motion |-> Q]
    /\ UNCHANGED <<settings, store, resection, ba, first_template, worker, measurement>>

\* what the alignment leaves behind when _estimate_rigid_transform returned fit
Alignment(fit) ==
    last' = [op |-> "estimate_rigid_transform",
             known |-> last.known,
             triangulated |-> last.triangulated,
             motion |-> last.motion,
             fit |-> fit,
             view_error |-> AlignedErrors(fit, last.known, last.triangulated)]

\* the alignment of the view: _estimate_rigid_transform(known_3d_subset,
\* triangulated_3d) and the per-point errors
AlignView ==
    /\ last.op = "triangulatePoints"
    /\ \E f \in svd(Covariance(last.known, last.triangulated)) :
        Alignment(estimate_rigid_transform(last.known, last.triangulated, f))
    /\ UNCHANGED <<settings, store, resection, ba, first_template, worker, measurement>>

\* the alignment step of the Accuracy Validator on one view after another
NextAlignment == TriangulateView \/ AlignView

SpecAlignment == InitDefault /\ [][NextAlignment]_vars

\* ------------------------- the data-loading methods in any order of calls
\* ba.set_camera_parameters(cameras), whatever was called before
LoadCameraParameters ==
    /\ \E cameras \in CameraLists :
        /\ ba' = set_camera_parameters(ba, cameras)
        /\ last' = [op |-> "set_camera_parameters"]
    /\ UNCHANGED <<settings, store, resection, first_template, worker, measurement>>

\* ba.set_calibration_data(object_points, image_points), whatever was
\* called before
LoadCalibrationData ==
    /\ \E object_pts \in ObjectPointLists, image_pts \in ImagePointLists :
        LET r == set_calibration_data(ba, object_pts, image_pts)
        IN  /\ ba' = r.self
            /\ last' = [op |-> "set_calibration_data", raised |-> r.error]
    /\ UNCHANGED <<settings, store, resection, first_template, worker, measurement>>

\* one BundleAdjustment instance loaded and reloaded
NextDataLoading == LoadCameraParameters \/ LoadCalibrationData

SpecDataLoading == InitDefault /\ [][NextDataLoading]_vars

\* --------------------- _compute_residuals and _compute_camera_statistics
\* the (object_points, image_points) of n_views views and n_cams cameras:
\* each view has the template of the pattern configuration it was recorded
\* under, and a detection is None or has as many points as its template
ResidualData(n_cams, n_views) ==
    {d \in [object_pts : [1 .. n_views -> Templates],
            image_pts : [1 .. n_cams -> [1 .. n_views -> {None} \cup DetectionCounts]]] :
        \A c \in 1 .. n_cams, v \in 1 .. n_views :
            d.image_pts[c][v] \in {None, NumPoints(d.object_pts[v])}}

\* a BundleAdjustment instance is loaded with the data of a session
LoadResidualData ==
    /\ last.op = "none"
    /\ \E n_cams \in 1 .. 2, n_views \in 1 .. MaxResidualViews :
        \E data \in ResidualData(n_cams, n_views) :
            /\ ba' = set_calibration_data(
                         set_camera_parameters(
                             NewBundleAdjustment,
                             [i \in 1 .. n_cams |-> SeedCamera(i - 1)]),
                         data.object_pts, data.image_pts).self
            /\ last' = [op |-> "set_calibration_data", raised |-> "none"]
    /\ UNCHANGED <<settings, store, resection, first_template, worker, measurement>>

\* "final_res = self._compute_residuals(result.x)" and "camera_stats =
\* self._compute_camera_statistics(final_res)" of optimize
ComputeCameraStatistics ==
    /\ last.op = "set_calibration_data"
    /\ ResidualError(ba) = "none"
    /\ last' = [op |-> "compute_camera_statistics",
                final_residuals |-> compute_residuals(ba),
                camera_stats |->
                    compute_camera_statistics(ba, compute_residuals(ba))]
    /\ UNCHANGED <<settings, store, resection, ba, first_template, worker, measurement>>

\* the residual vector and the per-camera statistics of one session
NextResiduals == LoadResidualData \/ ComputeCameraStatistics

SpecResiduals == InitDefault /\ [][NextResiduals]_vars

\* ------------------------- optimize() on a worker thread of the host
\* set_calibration_data binds self.object_points and self.image_points to
\* the lists of the Observation Store themselves, so while the call runs
\* ba.object_points and ba.image_points show what the store holds.

\* the (camera, view) observations one evaluation of _compute_residuals
\* uses, with their point data
Observations(self) ==
    {[cam |-> c, view |-> v,
      obj_pts_3d |-> At(self.object_points, v),
      img_pts_2d |-> At(At(self.image_points, c), v)] :
        <<c, v>> \in {p \in UNION {{<<c, v>> : v \in At(self.valid_views, c)} :
                                      c \in 0 .. self.n_cameras - 1} :
                         At(At(self.image_points, p[1]), p[2]) # None}}

\* one evaluation of _compute_residuals: the exception it raises, or the
\* observations it used
Evaluation(self) ==
    IF ResidualError(self) # "none"
    THEN [raised |-> ResidualError(self), observations |-> {}]
    ELSE [raised |-> "none", observations |-> Observations(self)]

\* the instance perform_global_calibration builds and loads from the store
LoadedFromStore ==
    set_calibration_data(
        set_camera_parameters(NewBundleAdjustment,
                              [i \in 1 .. n_cameras |-> SeedCamera(i - 1)]),
        object_points, image_points)

\* the worker thread enters perform_global_calibration: the cameras are
\* resectioned, the data is loaded and optimize() passes its guard
StartOptimize ==
    /\ worker.pc # "solving"
    /\ calibrate_single_cameras(0, [fail_cam |-> MaxCams, kind |-> "not_ret"]).error
           = NoError
    /\ LoadedFromStore.error = "none"
    /\ ~NotEnoughData(LoadedFromStore.self)
    /\ ba' = LoadedFromStore.self
    /\ worker' = [pc |-> "solving",
                  loaded |-> Observations(LoadedFromStore.self),
                  evaluations |-> <<>>]
    /\ UNCHANGED <<settings, store, resection, last, first_template, measurement>>

\* least_squares calls self._compute_residuals(x) once more
EvaluateResiduals ==
    /\ worker.pc = "solving"
    /\ Len(worker.evaluations) < MaxEvaluations
    /\ worker' = [worker EXCEPT
                     !.evaluations = Append(@, Evaluation(ba)),
                     !.pc = IF Evaluation(ba).raised # "none"
                            THEN "done" ELSE "solving"]
    /\ UNCHANGED <<settings, store, resection, ba, last, first_template,
                   measurement>>

\* optimize() returns
FinishOptimize ==
    /\ worker.pc = "solving"
    /\ Len(worker.evaluations) > 0
    /\ worker' = [worker EXCEPT !.pc = "done"]
    /\ UNCHANGED <<settings, store, resection, ba, last, first_template,
                   measurement>>

\* the capture path calls process_view, also while the worker is solving:
\* the lists it changes are the ones the optimizer reads
ProcessViewShared ==
    /\ \E view_idx \in ViewIndices, frame_data \in CapturedFrames :
        ProcessViewCall(view_idx, frame_data)
    /\ ba' = IF worker.pc = "solving"
             THEN [ba EXCEPT !.object_points = object_points',
                             !.image_points = image_points']
             ELSE ba
    /\ UNCHANGED <<settings, resection, first_template, measurement, worker>>

\* views are captured on the host's thread while a worker calibrates
NextWorker ==
    ProcessViewShared \/ StartOptimize \/ EvaluateResiduals \/ FinishOptimize

SpecWorker == InitDefault /\ [][NextWorker]_vars

\* ------------------------------------------------------------ properties
\* True == 1 and False == 0 when a Python bool is compared with an int
BoolAsInt(b) == IF b THEN 1 ELSE 0

\* C1: once n_cameras is set, a process_view call with another number of
\* detections raises the inconsistent-camera-count error and leaves
\* n_cameras, object_points, image_points and valid_views as they were.
C1_MismatchRaisesStoreUnchanged ==
    [][(last'.op = "process_view" /\ n_cameras # 0
            /\ last'.nargs # n_cameras)
        => (last'.error = "InconsistentCameraCount" /\ UNCHANGED store)]_vars

C1_Witness ==
    /\ last.op = "process_view"
    /\ last.error = "InconsistentCameraCount"
    /\ n_cameras = 2 /\ last.nargs = 1
    /\ object_points # <<>>
    /\ valid_views[1] # {}

\* C2: for every camera c and view index v, v is in valid_views[c] exactly
\* when image_points[c][v] holds a detection that is not None.
C2_ValidIffPresent ==
    \A c \in 0 .. Len(valid_views) - 1, v \in 0 .. MaxView + 1 :
        v \in At(valid_views, c)
        <=> /\ c < Len(image_points)
            /\ v < Len(At(image_points, c))
            /\ At(At(image_points, c), v) # None

\* C3: for every view index that has been recorded, object_points[v] exists
\* and is the template built when v was first recorded.
C3_TemplateOfFirstRecording ==
    \A v \in DOMAIN first_template :
        /\ v < Len(object_points)
        /\ At(object_points, v) = first_template[v]

\* C4: for every camera c and view v with a present observation, the
\* number of stored 2-D points equals the number of points of the 3-D
\* template stored for v.
C4_PointCountsAgree ==
    \A c \in 0 .. Len(image_points) - 1 :
        \A v \in 0 .. Len(At(image_points, c)) - 1 :
            At(At(image_points, c), v) # None
            => /\ v < Len(object_points)
               /\ At(At(image_points, c), v) = NumPoints(At(object_points, v))

\* C5 as claimed: process_view returns the number of cameras with a present
\* detection.
C5_ReturnsPresentCount ==
    (last.op = "process_view" /\ last.error = "none")
    => BoolAsInt(last.ret) = last.present

\* C5 as amended: process_view returns True exactly when at least 2 cameras
\* had a present detection for the view, and False otherwise.
C5_ReturnsAtLeastTwoPresent ==
    (last.op = "process_view" /\ last.error = "none")
    => (last.ret <=> last.present >= 2)

C5_Witness ==
    /\ last.op = "process_view" /\ last.error = "none"
    /\ last.nargs = 2 /\ last.present = 2 /\ last.ret

\* C6: right after initialize_cameras the store holds no 3-D template, no
\* 2-D observation and no valid-view entry of earlier process_view calls.
C6_BeginSessionDiscardsAll ==
    last.op = "initialize_cameras"
    => /\ object_points = <<>>
       /\ \A c \in 1 .. Len(image_points) : image_points[c] = <<>>
       /\ \A c \in 1 .. Len(valid_views) : valid_views[c] = {}

\* the first camera index whose valid-view set is empty
SomeCameraEmpty == \E c \in 0 .. n_cameras - 1 : At(valid_views, c) = {}
FirstEmptyCamera ==
    CHOOSE c \in 0 .. n_cameras - 1 :
        /\ At(valid_views, c) = {}
        /\ \A d \in 0 .. c - 1 : At(valid_views, d) # {}

\* C7 as claimed: with a camera whose valid-view set is empty,
\* perform_global_calibration fails at the first such camera with an error
\* naming it, never calls the optimizer and returns success = False with
\* that error.
C7_FailsAtFirstEmptyCamera ==
    (last.op = "perform_global_calibration" /\ SomeCameraEmpty)
    => /\ last.ret.success = FALSE
       /\ "error" \in last.ret.keys
       /\ last.ret.error =
              [kind |-> "NoValidViews", camera |-> FirstEmptyCamera]
       /\ ~last.optimize_called

\* C7 as amended: with a camera whose valid-view set is empty,
\* perform_global_calibration aborts at or before the first such camera,
\* never calls the optimizer and returns success = False with an error;
\* the error is the no-valid-views error naming the first such camera when
\* every earlier camera was resectioned, and the resectioning failure of
\* the earlier camera otherwise.
C7_AbortsByFirstEmptyCamera ==
    (last.op = "perform_global_calibration" /\ SomeCameraEmpty)
    => /\ last.ret.success = FALSE
       /\ "error" \in last.ret.keys
       /\ ~last.optimize_called
       /\ Len(camera_matrices) <= FirstEmptyCamera
       /\ IF Len(camera_matrices) = FirstEmptyCamera
          THEN last.ret.error =
                   [kind |-> "NoValidViews", camera |-> FirstEmptyCamera]
          ELSE last.ret.error.kind
                   \in {"ResectioningFailed", "cv2.error", "IndexError"}

C7_Witness ==
    /\ last.op = "perform_global_calibration"
    /\ SomeCameraEmpty
    /\ FirstEmptyCamera = 1
    /\ Len(camera_matrices) = 1
    /\ last.ret.error = [kind |-> "NoValidViews", camera |-> 1]

C9_FailuresBecomeResults ==
    last.op = "optimize"
    => /\ last.raised = "none"
       /\ last.failure # "none"
          => /\ last.ret.success = FALSE
             /\ "error" \in last.ret.keys
             /\ last.ret.error = last.failure

C9_Witness ==
    /\ last.op = "optimize"
    /\ last.solver_called
    /\ last.failure = "ValueError"
    /\ last.ret.success = FALSE

\* the cameras of ba without a valid view
ZeroViewCameras == {c \in 0 .. ba.n_cameras - 1 : At(ba.valid_views, c) = {}}
ReportsZeroViewCamera(c) ==
    /\ c < Len(last.ret.camera_stats)
    /\ At(last.ret.camera_stats, c).n_valid_views = 0
    /\ At(last.ret.camera_stats, c).rms = Infinity

C11_SingleCameraInsufficient ==
    (last.op = "optimize"
        /\ ba.n_cameras = 1
        /\ Cardinality(At(ba.valid_views, 0)) = 1)
    => /\ last.ret.success = FALSE
       /\ "error" \in last.ret.keys
       /\ last.ret.error = "NotEnough"
       /\ ~last.solver_called

\* C12: every result of perform_global_calibration carries a success flag,
\* and a result with success = False also carries a message and the
\* per-camera RMS statistics.
C12_FailureCarriesDiagnostics ==
    last.op = "perform_global_calibration"
    => /\ "success" \in last.ret.keys
       /\ ~last.ret.success
          => /\ {"message", "error"} \cap last.ret.keys # {}
             /\ {"per_camera", "camera_stats"} \cap last.ret.keys # {}

\* C13: a successful result of perform_global_calibration carries the
\* refined rotation and translation of every camera with its intrinsics.
C13_ResultCarriesRefinedCameras ==
    (last.op = "perform_global_calibration" /\ last.ret.success)
    => /\ "optimized_cameras" \in last.ret.keys
       /\ Len(last.ret.optimized_cameras) = n_cameras
       /\ \A i \in 1 .. n_cameras :
              /\ last.ret.optimized_cameras[i].rvec = "refined"
              /\ last.ret.optimized_cameras[i].tvec = "refined"

\* C14: the Accuracy Validator takes per-view medians and per-point errors
\* only from views in which both cameras of the pair have a detection: a
\* view whose detection is None or missing from the list for either camera
\* contributes no per-view median and no per-point error.
C14_OnlyViewsOfBothCameras ==
    last.op = "compute_stereo_3d_error"
    => /\ \A i \in 1 .. Len(last.run.view_errors) :
              BothPresent(ba.image_points, last.run.view_errors[i].view)
       /\ \A i \in 1 .. Len(last.run.all_3d_errors) :
              BothPresent(ba.image_points, last.run.all_3d_errors[i].view)
       /\ \A i \in 1 .. Len(last.run.over) :
              BothPresent(ba.image_points, last.run.over[i].view)

C14_Witness ==
    /\ last.op = "compute_stereo_3d_error"
    /\ Len(ba.object_points) = 3
    /\ Len(ba.image_points) = 2
    /\ Len(At(ba.image_points, 0)) = 3
    /\ BothPresent(ba.image_points, 0)
    /\ At(At(ba.image_points, 0), 1) = None
    /\ Len(At(ba.image_points, 1)) = 2
    /\ At(At(ba.image_points, 0), 2) # None
    /\ ~last.run.none
    /\ Len(last.run.view_errors) = 1

\* the views whose triangulation or alignment raised
FailedViews ==
    {v \in 0 .. Len(ba.object_points) - 1 :
        /\ BothPresent(ba.image_points, v)
        /\ At(last.outcomes, v).kind \in {"cv2.error", "LinAlgError"}}
\* image_points without the detections of camera 0 for the given views
WithoutViews(image_pts, views) ==
    [c \in 1 .. Len(image_pts) |->
        IF c = 1
        THEN [v \in 1 .. Len(image_pts[c]) |->
                 IF v - 1 \in views THEN None ELSE image_pts[c][v]]
        ELSE image_pts[c]]

\* C15: a view whose triangulation or alignment raises is only skipped:
\* the validation returns the figure it computes from the remaining views,
\* that is, the figure it returns when the failed views are not there.
C15_FailedViewOnlySkipped ==
    last.op = "compute_stereo_3d_error"
    => [none |-> last.run.none, over |-> last.run.over]
       = compute_stereo_3d_error(
             ba.cameras, ba.object_points,
             WithoutViews(ba.image_points, FailedViews), last.outcomes)

\* the views whose median error exceeds median + 2.5 x MAD
OutlierViews ==
    LET view_errors == last.run.view_errors
        medians2 == [i \in 1 .. Len(view_errors) |-> view_errors[i].median2]
    IN  {view_errors[i].view : i \in
            {j \in 1 .. Len(view_errors) :
                ~WithinThreshold(medians2[j], medians2)}}

\* C16: the final RMS is taken over exactly the per-point errors of the
\* views that are not outliers (median error <= median + 2.5 x MAD of the
\* per-view medians): all of them, and none of an outlier view.
C16_RmsOverNonOutlierViews ==
    (last.op = "compute_stereo_3d_error" /\ ~last.run.raised
        /\ Len(last.run.all_3d_errors) > 0)
    => /\ ~last.run.none
       /\ last.run.over =
              SelectSeq(last.run.all_3d_errors,
                        LAMBDA e : e.view \notin OutlierViews)

NoCalibrationSignal == Signal("error_occurred", "No calibration data available")

\* C17: triangulate_point returns None and signals the no-calibration
\* error whenever no calibration is stored (before any store_calibration,
\* after any clear_calibration), and never signals it while one is stored.
C17_NoCalibrationSignalled ==
    last.op = "triangulate_point"
    => IF published.none
       THEN last.ret.none /\ last.signals = <<NoCalibrationSignal>>
       ELSE \A i \in 1 .. Len(last.signals) :
                last.signals[i] # NoCalibrationSignal

C17_Witness ==
    /\ last.op = "triangulate_point"
    /\ last.nargs = 2
    /\ Len(lists) = 2
    /\ published.none
    /\ last.ret.none
    /\ last.signals = <<NoCalibrationSignal>>

\* C18: triangulate_point never raises: an exception while the projection
\* matrices are built or the point is triangulated (fewer than two picks
\* and a camera index the stored calibration lacks included) becomes a
\* triangulation-failed signal carrying the error and a None return;
\* compute_measurement then returns None and leaves current_measurements
\* as it was.
C18_TriangulationFailuresAreSignalled ==
    [][/\ last'.op = "triangulate_point"
          => /\ last'.raised = "none"
             /\ (storage.is_calibrated /\ last'.nargs < 2)
                => last'.failure # "none"
             /\ last'.failure # "none"
                => /\ last'.ret.none
                   /\ last'.signals =
                          <<Signal("triangulation_failed", last'.failure)>>
       /\ last'.op = "compute_measurement"
          => /\ last'.raised = "none"
             /\ last'.failure # "none"
                => /\ last'.ret.none
                   /\ current_measurements' = current_measurements]_vars

C18_Witness ==
    /\ last.op = "compute_measurement"
    /\ storage.is_calibrated
    /\ last.nargs = 1
    /\ last.failure = "IndexError"
    /\ last.ret.none
    /\ DOMAIN current_measurements # {}

\* C19: the confidence is 0 for fewer than 2 contributing views and exactly
\* 1.0 for 2 or more; it never exceeds 1.0 and never decreases when the
\* number of views grows.  (confidence2 is twice the confidence.)
C19_ConfidenceSaturates ==
    last.op = "_calculate_confidence"
    => /\ last.nargs < 2 => last.confidence2 = 0
       /\ last.nargs >= 2 => last.confidence2 = 2
       /\ last.confidence2 <= 2
       /\ \A fewer \in PointData :
              Len(fewer) <= last.nargs
              => calculate_confidence2(fewer) <= last.confidence2

C19_Witness ==
    /\ last.op = "_calculate_confidence"
    /\ last.nargs = 3
    /\ last.confidence2 = 2

\* C20: a stored calibration is an immutable copy: whatever is done to the
\* lists it was stored from, get_calibration keeps returning the
\* calibration as it was when it was stored.
C20_PublishedCalibrationImmutable ==
    storage.is_calibrated
    => Observed(lists, get_calibration(storage)) = published

\* C21: the rotation _estimate_rigid_transform returns is a proper rotation:
\* orthogonal with determinant +1, also when the rotation formed directly
\* from the SVD factors has determinant -1
C21_ProperRotation ==
    last.op = "estimate_rigid_transform"
    => /\ Det(last.fit.R) = 1
       /\ MatMul(last.fit.R, Transposed(last.fit.R)) = Identity3

\* an alignment whose SVD factors form a reflection and whose returned
\* rotation is proper
C21_Witness ==
    /\ last.op = "estimate_rigid_transform"
    /\ Det(last.fit.naive) = -1
    /\ Det(last.fit.R) = 1

\* C29: when the triangulated points are a rotation plus translation of the
\* template, every aligned per-point error of the view is zero
C29_RigidMotionAlignsToZero ==
    (last.op = "estimate_rigid_transform" /\ Det(last.motion) = 1)
    => \A k \in 1 .. Len(last.view_error) : last.view_error[k] = 0

\* C22: optimize() leaves every camera's intrinsic matrix and distortion
\* coefficients as they were, whether it succeeds or fails; what it
\* rewrites of a camera is its rvec and tvec only
C22_IntrinsicsFrozen ==
    [][last'.op = "optimize"
       => /\ Len(ba'.cameras) = Len(ba.cameras)
          /\ \A i \in 1 .. Len(ba.cameras) :
                /\ ba'.cameras[i].camera_matrix = ba.cameras[i].camera_matrix
                /\ ba'.cameras[i].dist_coeffs = ba.cameras[i].dist_coeffs]_vars

\* optimize() converged on two cameras: their extrinsics are the refined
\* ones and their intrinsics those from the resectioning
C22_Witness ==
    /\ last.op = "optimize"
    /\ last.failure = "none" /\ last.solver_called /\ last.ret.success
    /\ Len(ba.cameras) = 2
    /\ \A i \in 1 .. 2 :
          /\ ba.cameras[i].rvec = "refined"
          /\ ba.cameras[i].camera_matrix = SeedCamera(i - 1).camera_matrix
          /\ ba.cameras[i].dist_coeffs = SeedCamera(i - 1).dist_coeffs

\* C24: optimize() requests the accuracy estimate exactly when the rig has
\* at least two cameras
C24_StereoRequestedIffTwoCameras ==
    last.op = "optimize"
    => (last.stereo_request.requested <=> Len(ba.cameras) >= 2)

\* C24 (amended): when optimize() passes its data guard and nothing raises
\* in its try block, it requests the accuracy estimate exactly when the rig
\* has at least two cameras, hands over the cameras as the optimizer wrote
\* them back, and with a single camera overall_rms_mm is None; on the
\* failure returns no estimate is requested and the result has no
\* overall_rms_mm
C24_StereoRequestedAfterSolve ==
    last.op = "optimize"
    => IF last.solver_called /\ last.failure = "none"
       THEN /\ last.stereo_request.requested <=> Len(ba.cameras) >= 2
            /\ Len(ba.cameras) < 2 => last.ret.overall_rms_mm.none
            /\ last.stereo_request.requested
               => /\ last.stereo_request.cameras = ba.cameras
                  /\ last.stereo_request.cameras = last.ret.optimized_cameras
                  /\ \A i \in 1 .. Len(ba.cameras) :
                        /\ ba.cameras[i].rvec = "refined"
                        /\ ba.cameras[i].tvec = "refined"
       ELSE /\ ~last.stereo_request.requested
            /\ "overall_rms_mm" \notin last.ret.keys

\* optimize() requested the estimate for two cameras and got a figure
C24_Witness ==
    /\ last.op = "optimize"
    /\ last.stereo_request.requested
    /\ Len(last.stereo_request.cameras) = 2
    /\ ~last.ret.overall_rms_mm.none

\* C28: when optimize() fails because the solver or a residual evaluation
\* raised, every camera's rvec and tvec are as they were before the call
C28_ExtrinsicsUnchangedOnError ==
    [][(last'.op = "optimize" /\ last'.failure # "none")
       => /\ Len(ba'.cameras) = Len(ba.cameras)
          /\ \A i \in 1 .. Len(ba.cameras) :
                /\ ba'.cameras[i].rvec = ba.cameras[i].rvec
                /\ ba'.cameras[i].tvec = ba.cameras[i].tvec]_vars

\* the residual scalars of camera c within the residual vector, in order
OwnResiduals(final_residuals, c) ==
    SelectSeq(final_residuals, LAMBDA r : r.cam = c)

\* C23: the residual vector lists the cameras in ascending order, each
\* with its valid views in order, and every camera's RMS and max error are
\* taken over exactly that camera's own residual scalars
C23_StatisticsOverOwnResiduals ==
    last.op = "compute_camera_statistics"
    => /\ \A i, j \in 1 .. Len(last.final_residuals) :
              i < j => \/ last.final_residuals[i].cam < last.final_residuals[j].cam
                       \/ /\ last.final_residuals[i].cam = last.final_residuals[j].cam
                          /\ last.final_residuals[i].view <= last.final_residuals[j].view
       /\ \A c \in 0 .. Len(last.camera_stats) - 1 :
              LET own == OwnResiduals(last.final_residuals, c)
              IN  /\ At(last.camera_stats, c).rms
                         = IF Len(own) > 0 THEN Rms(own) ELSE Infinity
                  /\ At(last.camera_stats, c).max_error
                         = IF Len(own) > 0 THEN MaxAbs(own) ELSE Infinity

\* C27: when set_calibration_data returns, valid_views[c] is the set of
\* view indices at which the image_points[c] just supplied has a detection
C27_ValidViewsOfLatestData ==
    (last.op = "set_calibration_data" /\ last.raised = "none")
    => \A c \in 0 .. ba.n_cameras - 1 :
           At(ba.valid_views, c)
               = {v \in 0 .. Len(At(ba.image_points, c)) - 1 :
                      At(At(ba.image_points, c), v) # None}

\* C25: when compute_measurement succeeds, the measurement it returns and
\* the one stored for the electrode carry the position triangulated from
\* this call's point_data
C25_CarriesThisCallsPosition ==
    (last.op = "compute_measurement" /\ ~last.ret.none)
    => /\ last.ret.result.camera_position.position_3d
              = last.triangulated.point_3d
       /\ current_measurements[last.electrode_id].camera_position.position_3d
              = last.triangulated.point_3d

\* C26: for every electrode, is_valid holds only if both positions are
\* there and the discrepancy is within the accuracy threshold, and when
\* both positions are there the discrepancy is the distance between the
\* camera and the navigation position stored now
C26_DiscrepancyOfStoredPositions ==
    \A e \in DOMAIN current_measurements :
        LET m == current_measurements[e]
        IN  /\ m.compared.is_valid
               => /\ ~m.camera_position.none
                  /\ ~m.navigation_position.none
                  /\ ~m.compared.discrepancy.none
                  /\ m.compared.discrepancy.squared <= AccuracyThreshold2
            /\ (~m.camera_position.none /\ ~m.navigation_position.none)
               => /\ ~m.compared.discrepancy.none
                  /\ m.compared.discrepancy.squared
                         = SquaredNorm(VecSub(m.camera_position.position_3d,
                                              m.navigation_position.position_3d))

\* an electrode measured by the cameras gets a navigation position at the
\* accuracy threshold from the measured one: the measurement is valid
C26_Witness ==
    /\ last.op = "add_navigation_position"
    /\ 0 \in DOMAIN current_measurements
    /\ ~current_measurements[0].camera_position.none
    /\ current_measurements[0].camera_position.position_3d = <<0, 0, 0>>
    /\ current_measurements[0].navigation_position.position_3d = <<1, 0, 0>>
    /\ current_measurements[0].compared.is_valid

\* C30: every residual evaluation of an optimize() call uses the (camera,
\* view) observations and the point data the store held when
\* set_calibration_data was called, whatever process_view calls are
\* interleaved with it
C30_EvaluationsUseLoadedData ==
    worker.pc # "idle"
    => \A k \in 1 .. Len(worker.evaluations) :
           /\ worker.evaluations[k].raised = "none"
           /\ worker.evaluations[k].observations = worker.loaded

=============================================================================
